---- MODULE Spec2Model ----
(***************************************************************************)
(* A model of @u17g/deferrable (src/src/index.ts, lines 91-151): one run   *)
(* of deferrable(fn).  The run calls fn(defer), awaits the promise it      *)
(* returns through wrap, then pops and awaits the deferred callbacks one   *)
(* by one, and finally settles.                                            *)
(*                                                                         *)
(* Spec is one invocation; FairSpec adds the fairness of its own steps;    *)
(* Spec2 is two invocations interleaved at their awaits; SpecV1 is the     *)
(* first definition of deferrable in the file (lines 42-59).               *)
(*                                                                         *)
(* JavaScript values are modelled as strings; Undefined is the value       *)
(* `undefined`.  A Result is the two-slot tuple <<value, error>>.          *)
(***************************************************************************)
EXTENDS Integers, Sequences, FiniteSets

\* Largest number of defer(...) calls made in one run.
MaxActions == 3

Undefined == "undefined"

\* What the main callback can resolve with, what it can throw or reject
\* with, and what a deferred callback can throw or reject with.  Any
\* JavaScript value can be thrown, `undefined` included.
MainValues == {Undefined, "V1"}
MainErrors == {Undefined, "E1"}
DeferErrors == {Undefined, "D1", "E1"}

\* The shape of fn: an `async` function, or a plain function that returns a
\* promise (and can therefore throw before it has returned one).
FnKinds == {"async", "plain"}

VARIABLES
    pc,         \* where the body of deferrable is
    fnKind,     \* the shape of fn
    fnCalls,    \* how many times fn was called
    promise,    \* the promise returned by fn(defer)
    stack,      \* const stack (line 133): ids of the registered callbacks
    registered, \* history: every defer(...) call, with pc at the call
    result,     \* const result (line 137)
    cur,        \* const exec (line 140), the callback being awaited
    inflight,   \* callbacks invoked and not yet settled
    suspended,  \* callbacks in flight that reached a suspension point
    calls,      \* history: every invocation exec(result), with its argument
    done,       \* history: every settlement of a deferred callback
    settled,    \* the promise returned by deferrable
    active,     \* which invocation of deferrable the variables above belong to
    other       \* the same variables of the other invocation, parked

vars == <<pc, fnKind, fnCalls, promise, stack, registered, result, cur,
          inflight, suspended, calls, done, settled, active, other>>

----------------------------------------------------------------------------
\* Promises

Pending == [state |-> "pending", value |-> Undefined, errors |-> <<>>]
Resolve(v) == [state |-> "fulfilled", value |-> v, errors |-> <<>>]
Reject(e) == [state |-> "rejected", value |-> e, errors |-> <<>>]

\* What a rejection with new AggregateError([e, d]) would look like; the
\* source never builds one.
AggregateOf(e, d) == [state |-> "rejected", value |-> "AggregateError",
                      errors |-> <<e, d>>]

----------------------------------------------------------------------------
\* Result helpers (lines 91-106)

ok_swapped(v) == <<Undefined, v>>

ok(v) == <<v, Undefined>>

failure_both(e) == <<e, e>>

failure(e) == <<Undefined, e>>

\* wrap(promise), once the awaited promise has settled.
wrap(p) == IF p.state = "rejected" THEN failure(p.value) ELSE ok(p.value)

\* `await p` lets the function go on only once p has settled.
awaitDone_noWait(p) == TRUE

awaitDone_onlyFulfilled(p) == p.state = "fulfilled"

awaitDone(p) == p.state # "pending"

NoResult == <<>>

\* const [value, mainError] = result (line 138)
value == result[1]
mainError == result[2]

----------------------------------------------------------------------------
\* The stack (lines 133-135, 139-140)

push_onlyRunning(s, exec) ==
    IF pc \in {"InFn", "AwaitMain"} THEN Append(s, exec) ELSE s

push(s, exec) == Append(s, exec)

pop_shift(s) == [exec |-> s[1], rest |-> Tail(s)]

\* stack.pop(): removes and returns the last element.
pop(s) == [exec |-> s[Len(s)], rest |-> SubSeq(s, 1, Len(s) - 1)]

----------------------------------------------------------------------------
\* Everything one invocation of deferrable owns: its locals (lines 133-140),
\* the promise it returns, and its history.
Locals ==
    [pc |-> pc, fnKind |-> fnKind, fnCalls |-> fnCalls, promise |-> promise,
     stack |-> stack, registered |-> registered, result |-> result,
     cur |-> cur, inflight |-> inflight, suspended |-> suspended,
     calls |-> calls, done |-> done, settled |-> settled]

InitLocals ==
    [pc |-> "Idle", fnKind |-> "async", fnCalls |-> 0, promise |-> Pending,
     stack |-> <<>>, registered |-> <<>>, result |-> NoResult,
     cur |-> 0, inflight |-> {}, suspended |-> {},
     calls |-> <<>>, done |-> <<>>, settled |-> Pending]

\* The callbacks are distinct closures: the k-th one registered in
\* invocation r is numbered k + (r - 1) * MaxActions.
execId(r, k) == k + (r - 1) * MaxActions

Init ==
    /\ active = 1
    /\ other = InitLocals
    /\ pc = "Idle"
    /\ fnKind = "async"
    /\ fnCalls = 0
    /\ promise = Pending
    /\ stack = <<>>
    /\ registered = <<>>
    /\ result = NoResult
    /\ cur = 0
    /\ inflight = {}
    /\ suspended = {}
    /\ calls = <<>>
    /\ done = <<>>
    /\ settled = Pending

\* deferrable(fn) is called: the stack and defer are created and fn(defer)
\* starts to run (lines 133-137).
Call(kind) ==
    /\ pc = "Idle"
    /\ pc' = "InFn"
    /\ fnKind' = kind
    /\ fnCalls' = fnCalls + 1
    /\ stack' = <<>>
    /\ UNCHANGED <<active, other,
                   promise, registered, result, cur, inflight, suspended,
                   calls, done, settled>>

\* defer(exec) (lines 134-136).  The closure stays callable for as long as
\* anything holds it: while fn runs, from a deferred callback, or from a
\* stray asynchronous callback after the run.
defer ==
    /\ pc # "Idle"
    /\ Len(registered) < MaxActions
    /\ LET exec == execId(active, Len(registered) + 1) IN
        /\ stack' = push(stack, exec)
        /\ registered' = Append(registered, [id |-> exec, at |-> pc])
    /\ UNCHANGED <<active, other,
                   pc, fnKind, fnCalls, promise, result, cur, inflight,
                   suspended, calls, done, settled>>

\* fn(defer) returns its promise; wrap starts to await it (line 137).
FnReturn ==
    /\ pc = "InFn"
    /\ pc' = "AwaitMain"
    /\ UNCHANGED <<active, other,
                   fnKind, fnCalls, promise, stack, registered, result, cur,
                   inflight, suspended, calls, done, settled>>

\* fn throws before it has returned.  An async function turns the throw into
\* a rejected promise; a plain function lets it escape from the argument
\* expression fn(defer) of line 137, outside wrap's try, so that deferrable
\* itself rejects at once.
FnThrow(e) ==
    /\ pc = "InFn"
    /\ IF fnKind = "async"
         THEN /\ promise' = Reject(e)
              /\ pc' = "AwaitMain"
              /\ UNCHANGED settled
         ELSE /\ settled' = Reject(e)
              /\ pc' = "Settled"
              /\ UNCHANGED promise
    /\ UNCHANGED <<active, other,
                   fnKind, fnCalls, stack, registered, result, cur, inflight,
                   suspended, calls, done>>

\* The promise returned by fn settles.
FnResolve(v) ==
    /\ pc = "AwaitMain"
    /\ promise.state = "pending"
    /\ promise' = Resolve(v)
    /\ UNCHANGED <<active, other,
                   pc, fnKind, fnCalls, stack, registered, result, cur,
                   inflight, suspended, calls, done, settled>>

FnReject(e) ==
    /\ pc = "AwaitMain"
    /\ promise.state = "pending"
    /\ promise' = Reject(e)
    /\ UNCHANGED <<active, other,
                   pc, fnKind, fnCalls, stack, registered, result, cur,
                   inflight, suspended, calls, done, settled>>

\* const result = await wrap(fn(defer)) completes (lines 137-138).
WrapContinue ==
    /\ pc = "AwaitMain"
    /\ awaitDone(promise)
    /\ result' = wrap(promise)
    /\ pc' = "Draining"
    /\ UNCHANGED <<active, other,
                   fnKind, fnCalls, promise, stack, registered, cur,
                   inflight, suspended, calls, done, settled>>

\* Where the loop body is after calling exec(result): at the await of
\* line 142.
AfterInvoke_noAwait == "Draining"

AfterInvoke == "AwaitExec"

\* One turn of the while loop: pop and invoke (lines 139-142).
Invoke ==
    /\ pc = "Draining"
    /\ Len(stack) > 0
    /\ LET p == pop(stack) IN
        /\ stack' = p.rest
        /\ cur' = p.exec
        /\ calls' = Append(calls, [id |-> p.exec, arg |-> result])
        /\ inflight' = inflight \cup {p.exec}
    /\ pc' = AfterInvoke
    /\ UNCHANGED <<active, other,
                   fnKind, fnCalls, promise, registered, result, suspended,
                   done, settled>>

\* The callback being awaited reaches a suspension point of its own.
ExecSuspend ==
    /\ pc = "AwaitExec"
    /\ cur \in inflight \ suspended
    /\ suspended' = suspended \cup {cur}
    /\ UNCHANGED <<active, other,
                   pc, fnKind, fnCalls, promise, stack, registered, result,
                   cur, inflight, calls, done, settled>>

\* The awaited callback returns or its promise fulfils: next turn.
ExecFulfil ==
    /\ pc = "AwaitExec"
    /\ cur \in inflight
    /\ inflight' = inflight \ {cur}
    /\ suspended' = suspended \ {cur}
    /\ done' = Append(done, [id |-> cur, ok |-> TRUE, error |-> Undefined,
                             suspended |-> cur \in suspended])
    /\ pc' = "Draining"
    /\ UNCHANGED <<active, other,
                   fnKind, fnCalls, promise, stack, registered, result, cur,
                   calls, settled>>

\* catch (error) { throw error; } (lines 143-145): what deferrable does with
\* the error of a deferred callback.
onCatch_swallow(error) == [pc |-> "Draining", settled |-> settled]

onCatch_preferMain(error) ==
    [pc |-> "Settled",
     settled |-> IF mainError # Undefined THEN Reject(mainError)
                 ELSE Reject(error)]

onCatch(error) == [pc |-> "Settled", settled |-> Reject(error)]

\* The awaited callback throws or its promise rejects.
ExecReject(error) ==
    /\ pc = "AwaitExec"
    /\ cur \in inflight
    /\ inflight' = inflight \ {cur}
    /\ suspended' = suspended \ {cur}
    /\ done' = Append(done, [id |-> cur, ok |-> FALSE, error |-> error,
                             suspended |-> cur \in suspended])
    /\ pc' = onCatch(error).pc
    /\ settled' = onCatch(error).settled
    /\ UNCHANGED <<active, other,
                   fnKind, fnCalls, promise, stack, registered, result, cur,
                   calls>>

\* The loop ends with the stack empty (lines 147-150).
finish_alwaysValue == Resolve(value)

finish ==
    IF mainError # Undefined THEN Reject(mainError) ELSE Resolve(value)

Finish ==
    /\ pc = "Draining"
    /\ Len(stack) = 0
    /\ settled' = finish
    /\ pc' = "Settled"
    /\ UNCHANGED <<active, other,
                   fnKind, fnCalls, promise, stack, registered, result, cur,
                   inflight, suspended, calls, done>>

Next ==
    \/ \E kind \in FnKinds : Call(kind)
    \/ defer
    \/ FnReturn
    \/ \E e \in MainErrors : FnThrow(e)
    \/ \E v \in MainValues : FnResolve(v)
    \/ \E e \in MainErrors : FnReject(e)
    \/ WrapContinue
    \/ Invoke
    \/ ExecSuspend
    \/ ExecFulfil
    \/ \E error \in DeferErrors : ExecReject(error)
    \/ Finish

Spec == Init /\ [][Next]_vars

----------------------------------------------------------------------------
\* Two invocations of deferrable in one program.  JavaScript runs one of
\* them at a time and changes over only where the running one is suspended
\* or finished: not yet called, at await wrap(...) (line 137), at
\* await exec(result) (line 142), or settled.

\* const stack is declared in the body of deferrable (line 133): every
\* invocation has its own.
stackScope_module == "module"

stackScope == "invocation"

Switch ==
    /\ pc \in {"Idle", "AwaitMain", "AwaitExec", "Settled"}
    /\ active' = 3 - active
    /\ other' = Locals
    /\ pc' = other.pc
    /\ fnKind' = other.fnKind
    /\ fnCalls' = other.fnCalls
    /\ promise' = other.promise
    /\ stack' = IF stackScope = "invocation" THEN other.stack ELSE stack
    /\ registered' = other.registered
    /\ result' = other.result
    /\ cur' = other.cur
    /\ inflight' = other.inflight
    /\ suspended' = other.suspended
    /\ calls' = other.calls
    /\ done' = other.done
    /\ settled' = other.settled

\* Largest number of defer(...) calls in the two invocations together.
MaxActions2 == 2

Defer2 ==
    /\ Len(registered) + Len(other.registered) < MaxActions2
    /\ defer

\* One value and one deferred error stand for all here: what is checked is
\* that nothing crosses from one invocation to the other.
MainValues2 == {"V1"}
DeferErrors2 == {"D1"}

Next2 ==
    \/ \E kind \in FnKinds : Call(kind)
    \/ Defer2
    \/ FnReturn
    \/ \E e \in MainErrors : FnThrow(e)
    \/ \E v \in MainValues2 : FnResolve(v)
    \/ \E e \in MainErrors : FnReject(e)
    \/ WrapContinue
    \/ Invoke
    \/ ExecSuspend
    \/ ExecFulfil
    \/ \E error \in DeferErrors2 : ExecReject(error)
    \/ Finish
    \/ Switch

Spec2 == Init /\ [][Next2]_vars

----------------------------------------------------------------------------
\* The first definition of deferrable in the file (lines 42-59).  It differs
\* from the second one in its catch block, which is empty:
\* try { await exec(result); } catch { } (lines 52-54).

\* The error is discarded whatever it is: one value stands for all.
DeferErrorsV1 == {"D1"}

onCatchV1_rethrow(error) == [pc |-> "Settled", settled |-> Reject(error)]

onCatchV1(error) == [pc |-> "Draining", settled |-> settled]

ExecRejectV1(error) ==
    /\ pc = "AwaitExec"
    /\ cur \in inflight
    /\ inflight' = inflight \ {cur}
    /\ suspended' = suspended \ {cur}
    /\ done' = Append(done, [id |-> cur, ok |-> FALSE, error |-> error,
                             suspended |-> cur \in suspended])
    /\ pc' = onCatchV1(error).pc
    /\ settled' = onCatchV1(error).settled
    /\ UNCHANGED <<active, other,
                   fnKind, fnCalls, promise, stack, registered, result, cur,
                   calls>>

NextV1 ==
    \/ \E kind \in FnKinds : Call(kind)
    \/ defer
    \/ FnReturn
    \/ \E e \in MainErrors : FnThrow(e)
    \/ \E v \in MainValues : FnResolve(v)
    \/ \E e \in MainErrors : FnReject(e)
    \/ WrapContinue
    \/ Invoke
    \/ ExecSuspend
    \/ ExecFulfil
    \/ \E error \in DeferErrorsV1 : ExecRejectV1(error)
    \/ Finish

SpecV1 == Init /\ [][NextV1]_vars

\* The steps of deferrable's own body are taken once they can be: the job
\* queue resumes an async function whose awaited promise has settled, and
\* the statements between two awaits run to completion.  Nothing makes the
\* main callback or a deferred callback settle.
FairSpec ==
    /\ Spec
    /\ WF_vars(WrapContinue)
    /\ WF_vars(Invoke)
    /\ WF_vars(Finish)

----------------------------------------------------------------------------
\* Vocabulary of the properties

\* The run is executing the unit of work.
Running == pc \in {"InFn", "AwaitMain"}

\* The ids of the callbacks invoked so far, in order.
CallIds == [i \in 1..Len(calls) |-> calls[i].id]

\* How many callbacks were registered before draining began.  Ids are given
\* in registration order, so these callbacks are 1..RunRegistered.
RunRegistered ==
    Cardinality({i \in 1..Len(registered) :
                    registered[i].at \in {"InFn", "AwaitMain"}})

\* The callbacks registered before the run settled.
RegisteredBeforeSettle ==
    {registered[i].id : i \in {j \in 1..Len(registered) :
                                  registered[j].at # "Settled"}}

DeferredFailed == \E k \in 1..Len(done) : ~done[k].ok

\* The run went through the loop and settled (it did not end by an
\* exception escaping from fn(defer)).
Drained == pc = "Settled" /\ result # NoResult

\* The unit of work failed: its promise rejected, or it threw before
\* returning one.
ThrewSync == pc = "Settled" /\ result = NoResult
MainFailed == promise.state = "rejected" \/ ThrewSync
MainErrorValue == IF ThrewSync THEN settled.value ELSE promise.value

----------------------------------------------------------------------------
\* C1: the callbacks registered while the unit of work runs are invoked in
\* exactly the reverse of their registration order: at every moment the
\* invocations made so far are a prefix of the reversed registration
\* sequence, and once draining has completed with no deferred callback
\* failing they are the whole of it.
C1_LifoOrder ==
    LET n == RunRegistered
        inv == SelectSeq(CallIds, LAMBDA x : x <= n)
        rev == [i \in 1..n |-> n + 1 - i]
    IN  /\ Len(inv) <= n
        /\ inv = SubSeq(rev, 1, Len(inv))
        /\ (Drained /\ ~DeferredFailed) => inv = rev

C1_Witness ==
    /\ Drained
    /\ ~DeferredFailed
    /\ RunRegistered = 3
    /\ CallIds = <<3, 2, 1>>

\* C2: when the unit of work resolves with V and every deferred callback
\* succeeds, the run resolves with exactly V, and every registered callback
\* is invoked with the tuple (V, undefined).
C2_SuccessPassthrough ==
    promise.state = "fulfilled" =>
        /\ \A i \in 1..Len(calls) : calls[i].arg = <<promise.value, Undefined>>
        /\ (pc = "Settled" /\ ~DeferredFailed) =>
              /\ settled = Resolve(promise.value)
              /\ \A id \in RegisteredBeforeSettle :
                    \E i \in 1..Len(calls) : calls[i].id = id

C2_Witness ==
    /\ pc = "Settled"
    /\ promise = Resolve("V1")
    /\ ~DeferredFailed
    /\ Len(calls) >= 2
    /\ settled = Resolve("V1")

\* C3 (as claimed): when the promise of the unit of work rejects with E and
\* every deferred callback succeeds, every registered callback is invoked
\* with (undefined, E) and the run then rejects with exactly E.
C3_MainFailureRethrown ==
    (promise.state = "rejected" /\ pc = "Settled" /\ ~DeferredFailed) =>
        /\ \A id \in RegisteredBeforeSettle :
              \E i \in 1..Len(calls) :
                  /\ calls[i].id = id
                  /\ calls[i].arg = <<Undefined, promise.value>>
        /\ settled = Reject(promise.value)

C5_AggregateOfBoth ==
    \A k \in 1..Len(done) :
        (/\ promise.state = "rejected"
         /\ promise.value # Undefined
         /\ ~done[k].ok
         /\ done[k].error # Undefined) =>
            /\ settled = AggregateOf(promise.value, done[k].error)
            /\ Len(calls) = k

C7_SequentialDrain ==
    /\ Cardinality(inflight) <= 1
    /\ \A i \in 1..(Len(calls) - 1) :
          \E j \in 1..Len(done) : done[j].id = calls[i].id

C7_Witness ==
    /\ Len(calls) >= 2
    /\ Len(done) >= 1
    /\ done[1].suspended
    /\ done[1].id = calls[1].id

\* C8: no deferred callback is invoked while the unit of work is still
\* pending, the run never goes back to running the unit of work once
\* draining has begun, and the unit of work is called at most once.
C8_DrainAfterMain ==
    /\ []((calls # <<>> \/ inflight # {}) => promise.state # "pending")
    /\ [][(~Running /\ pc # "Idle") => ~Running']_vars
    /\ [](fnCalls <= 1 /\ (pc # "Idle" => fnCalls = 1))

C8_Witness ==
    /\ calls # <<>>
    /\ promise.state # "pending"
    /\ fnCalls = 1
    /\ pc = "Draining"

\* C9 (as claimed): the run resolves exactly when the unit of work succeeded
\* and no deferred callback failed; otherwise it rejects with the main error
\* alone, the deferred error alone, or the aggregate of the two.
C9_ThreeShapes ==
    pc = "Settled" =>
        /\ settled.state = "fulfilled" <=> (~MainFailed /\ ~DeferredFailed)
        /\ (MainFailed /\ ~DeferredFailed) => settled = Reject(MainErrorValue)
        /\ \A k \in 1..Len(done) :
              ~done[k].ok =>
                  settled = IF MainFailed
                               THEN AggregateOf(MainErrorValue, done[k].error)
                               ELSE Reject(done[k].error)

\* C10 (as claimed): with no deferred callback registered the run resolves
\* with V when the unit of work resolved with V and rejects with exactly E
\* when it failed with E.
C10_EmptyPassthrough ==
    (pc = "Settled" /\ registered = <<>>) =>
        /\ promise.state = "fulfilled" => settled = Resolve(promise.value)
        /\ MainFailed => settled = Reject(MainErrorValue)

C13_EveryFailureCaptured ==
    (MainFailed /\ pc = "Settled" /\ ~DeferredFailed) =>
        \A i \in 1..Len(registered) :
            registered[i].at \in {"InFn", "AwaitMain"} =>
                \E j \in 1..Len(calls) :
                    /\ calls[j].id = registered[i].id
                    /\ calls[j].arg = <<Undefined, MainErrorValue>>

\* C14 (as claimed): the captured tuple has exactly one of its two slots
\* populated, never both and never neither.  Stated for a unit of work that
\* resolved, where the claim fails already.
C14_ExactlyOneSlot ==
    (result # NoResult /\ promise.state = "fulfilled") =>
        (result[1] # Undefined) # (result[2] # Undefined)

\* C14 (amended): the captured tuple never has both slots populated: it is
\* (V, undefined) when the unit of work resolved with V and (undefined, E)
\* when it rejected with E, so that neither slot is populated exactly when
\* V or E is itself undefined; every callback receives that tuple.
C14_AtMostOneSlot ==
    result # NoResult =>
        /\ ~(result[1] # Undefined /\ result[2] # Undefined)
        /\ promise.state = "fulfilled" => result = <<promise.value, Undefined>>
        /\ promise.state = "rejected" => result = <<Undefined, promise.value>>
        /\ promise.state # "pending"
        /\ (result = <<Undefined, Undefined>>) <=> (promise.value = Undefined)
        /\ \A i \in 1..Len(calls) : calls[i].arg = result

C14_Witness ==
    /\ promise = Resolve(Undefined)
    /\ result = <<Undefined, Undefined>>
    /\ Len(calls) >= 1
    /\ \E i \in 1..Len(registered) : registered[i].at = "InFn"

\* C15 (as claimed): a run whose unit of work rejected never resolves, and
\* when draining completes with no deferred failure it rejects with the
\* original error, whatever value that error is.
C15_RejectionSurvives ==
    promise.state = "rejected" =>
        /\ settled.state # "fulfilled"
        /\ (Drained /\ ~DeferredFailed) => settled = Reject(promise.value)

\* C16 (as claimed): no callback registered after draining has begun is
\* ever invoked.  Stated for a callback registered while a deferred callback
\* is being awaited, for instance by that callback itself.  (The other half
\* of the claim, that the stack is appended to only while the unit of work
\* runs, fails with it: the callback is invoked because it was pushed.)
C16_RegistrationOnlyWhileRunning ==
    \A i \in 1..Len(registered) :
        registered[i].at = "AwaitExec" =>
            \A j \in 1..Len(calls) : calls[j].id # registered[i].id

\* C16 (amended): defer appends to the stack whenever it is called.  A
\* callback registered while draining is in progress is invoked like the
\* others (unless a deferred failure stops the draining first); a callback
\* registered after the run has settled stays on the stack and is never
\* invoked.
C16_LateRegistration ==
    \A i \in 1..Len(registered) :
        /\ registered[i].at = "Settled" =>
              /\ \E j \in 1..Len(stack) : stack[j] = registered[i].id
              /\ \A j \in 1..Len(calls) : calls[j].id # registered[i].id
        /\ (registered[i].at \in {"Draining", "AwaitExec"}
                /\ Drained /\ ~DeferredFailed) =>
              \E j \in 1..Len(calls) : calls[j].id = registered[i].id

C16_Witness ==
    /\ Drained
    /\ ~DeferredFailed
    /\ Len(registered) = 3
    /\ registered[2].at = "AwaitExec"
    /\ registered[3].at = "Settled"
    /\ CallIds = <<1, 2>>
    /\ stack = <<3>>

\* C17 (as claimed): no callback is invoked twice, and a run in which no
\* deferred callback failed has, once settled, invoked every callback
\* registered before it settled exactly once and left none of them on the
\* stack.
C17_DrainedBeforeSettle ==
    /\ \A i, j \in 1..Len(calls) : calls[i].id = calls[j].id => i = j
    /\ (pc = "Settled" /\ ~DeferredFailed) =>
          \A id \in RegisteredBeforeSettle :
              /\ \E j \in 1..Len(calls) : calls[j].id = id
              /\ \A j \in 1..Len(stack) : stack[j] # id

RunState(r) == IF r = active THEN Locals ELSE other

OwnIds(r) == {execId(r, k) : k \in 1..Len(RunState(r).registered)}

\* What an invocation alone makes of the outcome of its main promise and of
\* its callbacks.
AloneSettles(L) ==
    IF L.pc # "Settled" THEN L.settled = Pending
    ELSE IF L.result = NoResult
        THEN L.calls = <<>> /\ L.settled.state = "rejected"
    ELSE IF \E k \in 1..Len(L.done) : ~L.done[k].ok
        THEN L.settled = Reject(L.done[Len(L.done)].error)
    ELSE IF L.promise.state = "rejected" /\ L.promise.value # Undefined
        THEN L.settled = Reject(L.promise.value)
    ELSE L.settled = Resolve(IF L.promise.state = "fulfilled"
                                THEN L.promise.value ELSE Undefined)

C12_RunsIsolated ==
    /\ \A r \in {1, 2} :
        LET L == RunState(r) IN
            /\ \A j \in 1..Len(L.registered) :
                  L.registered[j].id = execId(r, j)
            /\ \A j \in 1..Len(L.stack) : L.stack[j] \in OwnIds(r)
            /\ \A j \in 1..Len(L.calls) :
                  /\ L.calls[j].id \in OwnIds(r)
                  /\ L.result # NoResult
                  /\ L.calls[j].arg = L.result
            /\ L.result # NoResult => L.result = wrap(L.promise)
            /\ AloneSettles(L)
    /\ OwnIds(1) \cap OwnIds(2) = {}

\* Both invocations are in the middle of draining at once, with different
\* results.
C12_Witness ==
    /\ pc = "AwaitExec"
    /\ other.pc = "AwaitExec"
    /\ calls # <<>>
    /\ other.calls # <<>>
    /\ promise = Resolve("V1")
    /\ other.promise = Reject("E1")

====
